---- MODULE Spec2Model ----
(***************************************************************************)
(* Model of scripts/changelog-ci.py: configuration validation, version     *)
(* extraction from the pull request title, grouping of the fetched pull    *)
(* requests and the prepend-style write of the changelog file.             *)
(*                                                                         *)
(* Text is a sequence of one-character strings.  JSON values are records    *)
(* [kind, val]; a dict's val is a function from its keys to JSON values.    *)
(* The two HTTP requests are inputs: the search response is drawn from a    *)
(* set, and the release lookup, which only shapes the query, is left out.   *)
(***************************************************************************)
EXTENDS Integers, Sequences, FiniteSets, TLC

\* ------------------------------------------------------------------ bounds
MaxRuns == 2          \* script runs against the same changelog file
MaxPrior == 2         \* length of the changelog content before the first run
MaxItems == 2         \* pull requests in one search response (Spec)
MaxPullRequests == 3  \* pull requests handed to _parse_data (SpecParse)
MaxGroups == 2        \* entries of group_config (SpecParse)
MaxConfigGroups == 2  \* entries of group_config (SpecConfig)
MaxTail == 4          \* characters of a title after its first word

\* ------------------------------------------------------------ text helpers
RECURSIVE Concat(_)
Concat(ss) == IF ss = <<>> THEN <<>> ELSE Head(ss) \o Concat(Tail(ss))

RECURSIVE Repeat(_, _)
Repeat(c, n) == IF n = 0 THEN <<>> ELSE <<c>> \o Repeat(c, n - 1)

StartsWith(s, p) == Len(s) >= Len(p) /\ SubSeq(s, 1, Len(p)) = p

SeqsUpTo(S, n) == UNION {[1..k -> S] : k \in 0..n}

\* sequences without repetition
DistinctSeqsUpTo(S, n) ==
    {s \in SeqsUpTo(S, n) : \A i, j \in 1..Len(s) : i # j => s[i] # s[j]}

UpperCase == <<"A","B","C","D","E","F","G","H","I","J","K","L","M",
               "N","O","P","Q","R","S","T","U","V","W","X","Y","Z">>
LowerCase == <<"a","b","c","d","e","f","g","h","i","j","k","l","m",
               "n","o","p","q","r","s","t","u","v","w","x","y","z">>

\* str.lower()
ToLower == [c \in {UpperCase[k] : k \in 1..26} |->
               LowerCase[CHOOSE k \in 1..26 : UpperCase[k] = c]]
Lower(s) == [i \in 1..Len(s) |->
               IF s[i] \in DOMAIN ToLower THEN ToLower[s[i]] ELSE s[i]]

\* str.split(sep) with an explicit one-character separator: every occurrence
\* splits, empty pieces are kept
RECURSIVE SplitFrom(_, _, _)
SplitFrom(s, sep, cur) ==
    IF s = <<>> THEN <<cur>>
    ELSE IF Head(s) = sep THEN <<cur>> \o SplitFrom(Tail(s), sep, <<>>)
    ELSE SplitFrom(Tail(s), sep, Append(cur, Head(s)))

Split(s, sep) == SplitFrom(s, sep, <<>>)

\* str(int) for a non-negative integer
DigitChars == <<"0","1","2","3","4","5","6","7","8","9">>
RECURSIVE Digits(_)
Digits(n) == IF n < 10 THEN <<DigitChars[n + 1]>>
             ELSE Digits(n \div 10) \o <<DigitChars[(n % 10) + 1]>>

\* ------------------------------------------------------------- JSON values
JNull == [kind |-> "null"]
JNum(n) == [kind |-> "num", val |-> n]
JStr(s) == [kind |-> "str", val |-> s]
JList(l) == [kind |-> "list", val |-> l]
JDict(f) == [kind |-> "dict", val |-> f]
EmptyDict == [kind |-> "dict", val |-> [k \in {} |-> JNull]]

\* dict.get(key): None when the key is absent
Get(d, key) == IF key \in DOMAIN d.val THEN d.val[key] ELSE JNull

\* Python truth value of a JSON value
Truthy(j) ==
    CASE j.kind = "null" -> FALSE
      [] j.kind = "num"  -> j.val # 0
      [] j.kind = "str"  -> j.val # <<>>
      [] j.kind = "list" -> j.val # <<>>
      [] j.kind = "dict" -> DOMAIN j.val # {}

\* ---------------------------------------------------------- validate_config
\* first error raised while checking group_config[i..], "ok" when none
RECURSIVE validate_groups(_, _)
validate_groups(group_config, i) ==
    IF i > Len(group_config) THEN "ok"
    ELSE LET c == group_config[i] IN
         IF c.kind # "dict" THEN "TypeError"
         ELSE IF ~Truthy(Get(c, "title")) THEN "KeyError"
         ELSE IF ~Truthy(Get(c, "labels")) THEN "KeyError"
         ELSE IF Get(c, "labels").kind # "list" THEN "TypeError"
         ELSE validate_groups(group_config, i + 1)

\* "ok" when validate_config returns, otherwise the exception it raises
validate_config(config) ==
    IF config.kind # "dict" THEN "TypeError"
    ELSE IF ~Truthy(Get(config, "header_prefix")) THEN "KeyError"
    ELSE IF Get(config, "group_config").kind # "list" THEN "TypeError"
    ELSE validate_groups(Get(config, "group_config").val, 1)

Version_ == <<"V","e","r","s","i","o","n",":">>

_default_config ==
    JDict(("header_prefix" :> JStr(Version_)) @@ ("group_config" :> JList(<<>>)))

\* A config file argument: no path given, a path that cannot be opened, a file
\* that is not JSON, or a file holding the JSON value val.
NoPath == [kind |-> "nopath"]
MissingFile == [kind |-> "missing"]
BadJson == [kind |-> "badjson"]
JsonFile(j) == [kind |-> "json", val |-> j]

\* the exception caught in _parse_config, "ok" when the user config is used,
\* "none" when no path was given
config_error(config_file) ==
    CASE config_file.kind = "nopath"  -> "none"
      [] config_file.kind = "missing" -> "FileNotFoundError"
      [] config_file.kind = "badjson" -> "JSONDecodeError"
      [] config_file.kind = "json"    -> validate_config(config_file.val)

_parse_config(config_file) ==
    IF config_error(config_file) = "ok" THEN config_file.val
    ELSE _default_config

\* ------------------------------------------------------ _get_version_number
release == <<"r","e","l","e","a","s","e">>

\* title is the JSON value of data["pull_request"]["title"]; every exception
\* (a title that is no string, no second element) leaves version = ''
_get_version_number(title) ==
    IF title.kind # "str" THEN <<>>
    ELSE IF StartsWith(Lower(title.val), release)
         THEN LET slices == Split(title.val, " ") IN
              IF Len(slices) >= 2 THEN slices[2] ELSE <<>>
         ELSE <<>>

\* ------------------------------------- _get_pull_requests_after_last_release
\* A search response: its status code and, for 200, total_count and items.
_get_pull_requests_after_last_release(response) ==
    IF response.status_code = 200
    THEN IF response.total_count > 0 THEN response.items ELSE <<>>
    ELSE <<>>

\* -------------------------------------------------------------- _parse_data
_get_changelog_line(item) ==
    <<"*"," ","[","#">> \o Digits(item.number) \o <<"]","(">> \o item.url
        \o <<")",":"," ">> \o item.title \o <<"\n">>

\* a remove that leaves the list as it is
RemoveFirst_m(list, x) == list

\* list.remove(x): drops the first element equal to x
RemoveFirst(list, x) ==
    LET k == CHOOSE i \in 1..Len(list) :
                 list[i] = x /\ \A j \in 1..(i - 1) : list[j] # x
    IN SubSeq(list, 1, k - 1) \o SubSeq(list, k + 1, Len(list))

\* any(label in pull_request['labels'] for label in config['labels'])
LabelMatch(pull_request, labels) ==
    \E i \in 1..Len(labels) :
        /\ labels[i].kind = "str"
        /\ \E j \in 1..Len(pull_request.labels) :
               pull_request.labels[j] = labels[i].val

\* the inner for loop of one group: i is the iterator's (0-based) position in
\* the list, which the loop body shortens while it is iterated
RECURSIVE GroupLoop(_, _, _, _)
GroupLoop(list, i, items, labels) ==
    IF i >= Len(list) THEN [rest |-> list, items |-> items]
    ELSE LET pull_request == list[i + 1] IN
         IF LabelMatch(pull_request, labels)
         THEN GroupLoop(RemoveFirst(list, pull_request), i + 1,
                        Append(items, _get_changelog_line(pull_request)), labels)
         ELSE GroupLoop(list, i + 1, items, labels)

GroupPrefix == <<"#","#","#","#"," ">>
OtherChanges == GroupPrefix \o <<"O","t","h","e","r"," ","C","h","a","n","g","e","s">>
                    \o <<"\n","\n">>

\* the outer loop over group_config[g..]; '#### ' + title raises TypeError for
\* a title that is no string
RECURSIVE ParseGroups(_, _, _, _)
ParseGroups(group_config, g, list, data) ==
    IF g > Len(group_config)
    THEN [err |-> "none",
          data |-> IF list # <<>>
                   THEN Append(data, [title |-> OtherChanges,
                                      items |-> [i \in 1..Len(list) |->
                                                    _get_changelog_line(list[i])]])
                   ELSE data]
    ELSE LET config == group_config[g] IN
         IF config.val["title"].kind # "str"
         THEN [err |-> "TypeError", data |-> <<>>]
         ELSE LET r == GroupLoop(list, 0, <<>>, config.val["labels"].val)
                  title == GroupPrefix \o config.val["title"].val \o <<"\n","\n">>
              IN ParseGroups(group_config, g + 1, r.rest,
                             Append(data, [title |-> title, items |-> r.items]))

_parse_data(config, pull_request_data) ==
    LET group_config == config.val["group_config"].val IN
    IF group_config # <<>>
    THEN ParseGroups(group_config, 1, pull_request_data, <<>>)
    ELSE [err |-> "none",
          data |-> <<[title |-> <<>>,
                      items |-> [i \in 1..Len(pull_request_data) |->
                                    _get_changelog_line(pull_request_data[i])]]>>]

\* ---------------------------------------------------------- write_changelog
\* The changelog file: whether it exists and its characters.
NoFile == [exists |-> FALSE, content |-> <<>>]
File(c) == [exists |-> TRUE, content |-> c]

_get_file_mode(file) == IF file.exists THEN "r+" ELSE "w+"

\* open(filename, mode): 'w+' creates the file empty, 'r+' leaves it as it is
Open(file, mode) == IF mode = "w+" THEN File(<<>>) ELSE file

\* f.read() of a text-mode file (newline=None): "\r\n" and a lone "\r" are
\* both read as "\n"
RECURSIVE ReadFrom(_, _)
ReadFrom(c, i) ==
    IF i > Len(c) THEN <<>>
    ELSE IF c[i] = "\r"
         THEN <<"\n">> \o ReadFrom(c, IF i < Len(c) /\ c[i + 1] = "\n"
                                      THEN i + 2 ELSE i + 1)
         ELSE <<c[i]>> \o ReadFrom(c, i + 1)

ReadText(c) == ReadFrom(c, 1)

\* f.seek(0, 0) then writes of `written`: the file is overwritten from its
\* start and is not truncated
Overwrite(content, written) ==
    written \o SubSeq(content, Len(written) + 1, Len(content))

\* lines 262-272 for one entry of data_to_write; the map objects of the
\* "Other Changes" and untitled entries are always true and never empty
GroupText(data) ==
    (IF data.title # <<>> /\ data.items # <<>>
     THEN <<"\n">> \o data.title ELSE <<>>)
    \o <<"\n">> \o Concat(data.items)

\* lines 254-260: the header and its underline
HeaderText(header_prefix, version) ==
    LET v == header_prefix \o <<" ">> \o version IN
    v \o <<"\n">> \o Repeat("=", Len(v)) \o <<"\n">>

SectionText(header_prefix, version, data_to_write) ==
    HeaderText(header_prefix, version)
        \o Concat([i \in 1..Len(data_to_write) |-> GroupText(data_to_write[i])])

\* a write that forgets the existing data
BodyText_m(body) == <<>>

\* lines 274-277
BodyText(body) == IF body # <<>> THEN <<"\n","\n">> \o body ELSE <<>>

\* only the first early return
NothingToWrite_m(version, pull_request_data) == version = <<>>

\* lines 230-245: the two early returns
NothingToWrite(version, pull_request_data) ==
    version = <<>> \/ pull_request_data = <<>>

\* ------------------------------------------------------------------- inputs
Group(title, labels) == JDict(("title" :> title) @@ ("labels" :> labels))
Config(header_prefix, group_config) ==
    JDict(("header_prefix" :> header_prefix) @@ ("group_config" :> group_config))

LabelB == <<"b">>
LabelF == <<"f">>

\* config files of Spec: none, one with two groups, one whose header_prefix is
\* a number, one whose group title is a number
CfgGroups ==
    Config(JStr(<<"V">>),
           JList(<<Group(JStr(<<"T">>), JList(<<JStr(LabelB)>>)),
                   Group(JStr(<<"U">>), JList(<<JStr(LabelF)>>))>>))
CfgNumPrefix == Config(JNum(1), JList(<<>>))
CfgNumTitle ==
    Config(JStr(<<"V">>), JList(<<Group(JNum(1), JList(<<JStr(LabelB)>>))>>))
ConfigFiles ==
    {NoPath, JsonFile(CfgGroups), JsonFile(CfgNumPrefix), JsonFile(CfgNumTitle)}

PullRequest(number, labels) ==
    [title |-> <<"t">>, number |-> number, url |-> <<"u">>, labels |-> labels]

\* pull requests of Spec
PullRequests == {PullRequest(5, <<LabelB>>), PullRequest(12, <<>>)}

Response(status_code, items) ==
    [status_code |-> status_code, total_count |-> Len(items), items |-> items]
Responses(prs, n) ==
    {Response(404, <<>>)} \cup {Response(200, l) : l \in DistinctSeqsUpTo(prs, n)}
NoResponse == Response(0, <<>>)
\* the search request is made only when a version was found (lines 230-241)
SearchResponses == Responses(PullRequests, MaxItems)
ResponsesFor(t) ==
    IF _get_version_number(t) = <<>> THEN {NoResponse} ELSE SearchResponses

ReleaseTitle == JStr(release \o <<" ","1">>)
FixTitle == JStr(<<"f","i","x">>)
Titles == {ReleaseTitle, FixTitle}

\* changelog contents before the first run
FileChars == {"a", "\n", "\r"}
PriorFiles == {NoFile} \cup {File(c) : c \in SeqsUpTo(FileChars, MaxPrior)}

\* -------------------------------------------------------------------- state
VARIABLES
    pc,                 \* "start" | "constructed" | "done": position in __main__
    file,               \* the changelog file (self.filename)
    config_file,        \* the config_file argument of the last construction
    config,             \* self.config
    logged,             \* what _parse_config met: "none" | "ok" | an exception
    title,              \* the pull request title of the last call
    version,            \* the version _get_version_number returned
    response,           \* the search response of the last call
    pull_request_data,  \* the list as fetched (before _parse_data mutates it)
    data_to_write,      \* what _parse_data returned
    body,               \* what f.read() returned
    before,             \* the file when the last write_changelog was called
    outcome,            \* "none" | "returned" | "wrote" | "raised"
    runs,               \* completed runs of the script
    prev                \* config, inputs and result of the run before this one

vars == <<pc, file, config_file, config, logged, title, version, response,
          pull_request_data, data_to_write, body, before, outcome, runs, prev>>

NoRun == [outcome |-> "none", config |-> JNull, version |-> <<>>,
          pull_request_data |-> <<>>, after |-> NoFile]

InitWith(files) ==
    /\ pc = "start"
    /\ file \in files
    /\ config_file = NoPath
    /\ config = JNull
    /\ logged = "none"
    /\ title = JNull
    /\ version = <<>>
    /\ response = NoResponse
    /\ pull_request_data = <<>>
    /\ data_to_write = <<>>
    /\ body = <<>>
    /\ before = file
    /\ outcome = "none"
    /\ runs = 0
    /\ prev = NoRun

Init == InitWith(PriorFiles)

\* ChangelogCI.__init__ as called from __main__ (lines 49-58, 334-337)
Construct(cf) ==
    /\ pc = "start"
    /\ runs < MaxRuns
    /\ pc' = "constructed"
    /\ config_file' = cf
    /\ config' = _parse_config(cf)
    /\ logged' = config_error(cf)
    /\ prev' = [outcome |-> outcome, config |-> config, version |-> version,
                pull_request_data |-> pull_request_data, after |-> file]
    /\ UNCHANGED <<file, title, version, response, pull_request_data,
                   data_to_write, body, before, outcome, runs>>

\* the result of write_changelog on `f` for the title t and the search
\* response resp: the file it leaves and how it ended
write_changelog(f, cfg, t, resp) ==
    LET v == _get_version_number(t)
        prs == IF v = <<>> THEN <<>>
               ELSE _get_pull_requests_after_last_release(resp)
        none == [file |-> f, version |-> v, pull_request_data |-> prs,
                 data_to_write |-> <<>>, body |-> <<>>, outcome |-> "returned"]
    IN
    IF NothingToWrite(v, prs) THEN none
    ELSE LET file_mode == _get_file_mode(f)
             parsed == _parse_data(cfg, prs)
         IN
         IF parsed.err # "none"
         THEN [none EXCEPT !.outcome = "raised"]
         ELSE LET opened == Open(f, file_mode)
                  b == ReadText(opened.content)
                  header_prefix == cfg.val["header_prefix"]
              IN
              IF header_prefix.kind # "str"
              THEN [none EXCEPT !.file = opened, !.body = b,
                                !.data_to_write = parsed.data,
                                !.outcome = "raised"]
              ELSE [file |-> File(Overwrite(opened.content,
                                   SectionText(header_prefix.val, v, parsed.data)
                                       \o BodyText(b))),
                    version |-> v, pull_request_data |-> prs,
                    data_to_write |-> parsed.data, body |-> b,
                    outcome |-> "wrote"]

\* ci.write_changelog() (line 338)
WriteChangelog(t, resp) ==
    /\ pc = "constructed"
    /\ \E r \in {write_changelog(file, config, t, resp)} :
       /\ file' = r.file
       /\ version' = r.version
       /\ pull_request_data' = r.pull_request_data
       /\ data_to_write' = r.data_to_write
       /\ body' = r.body
       /\ outcome' = r.outcome
    /\ title' = t
    /\ response' = resp
    /\ before' = file
    /\ runs' = runs + 1
    /\ pc' = "start"
    /\ UNCHANGED <<config_file, config, logged, prev>>

Next ==
    \/ \E cf \in ConfigFiles : Construct(cf)
    \/ \E t \in Titles :
         \E resp \in ResponsesFor(t) :
            WriteChangelog(t, resp)

Spec == Init /\ [][Next]_vars

\* ------------------------------------------------- SpecConfig: _parse_config
Absent == [kind |-> "absent"]

\* the dict holding the pairs whose value is not Absent
DictOf(pairs) ==
    LET present == {p \in pairs : p[2] # Absent} IN
    JDict([k \in {p[1] : p \in present} |->
              (CHOOSE p \in present : p[1] = k)[2]])

HeaderValues ==
    {Absent, JNull, JStr(<<>>), JStr(<<"V">>), JNum(0), JNum(1)}
TitleValues == {Absent, JStr(<<>>), JStr(<<"T">>), JNum(1)}
LabelsValues ==
    {Absent, JList(<<>>), JList(<<JStr(LabelB)>>), JStr(LabelB), EmptyDict}
GroupValues ==
    {DictOf({<<"title", t>>, <<"labels", l>>}) : t \in TitleValues, l \in LabelsValues}
        \cup {JNull, JStr(<<"g">>)}
GroupConfigValues ==
    {JList(l) : l \in SeqsUpTo(GroupValues, MaxConfigGroups)}
        \cup {Absent, JNull, JStr(<<"g">>), EmptyDict}
ConfigValues ==
    {DictOf({<<"header_prefix", h>>, <<"group_config", g>>}) :
        h \in HeaderValues, g \in GroupConfigValues}
        \cup {JNull, JNum(1), JStr(<<"c">>), JList(<<>>)}
AllConfigFiles ==
    {NoPath, MissingFile, BadJson} \cup {JsonFile(j) : j \in ConfigValues}

InitConfig == InitWith({NoFile})
NextConfig == \E cf \in AllConfigFiles : Construct(cf)
SpecConfig == InitConfig /\ [][NextConfig]_vars

\* ------------------------------------------- SpecVersion: _get_version_number
FirstWords ==
    {release, <<"R">> \o Tail(release), <<"R","E","L","E","A","S","E">>,
     SubSeq(release, 1, 6), <<"f","i","x">>, <<" ">> \o release}
TailChars == {" ", "\t", "1", "x"}
AllTitles ==
    {JNull} \cup {JStr(w \o r) : w \in FirstWords, r \in SeqsUpTo(TailChars, MaxTail)}

\* _get_version_number() on the title of the event payload
GetVersionNumber(t) ==
    /\ pc = "start"
    /\ pc' = "done"
    /\ title' = t
    /\ version' = _get_version_number(t)
    /\ UNCHANGED <<file, config_file, config, logged, response,
                   pull_request_data, data_to_write, body, before, outcome,
                   runs, prev>>

InitVersion == InitWith({NoFile})
NextVersion == \E t \in AllTitles : GetVersionNumber(t)
SpecVersion == InitVersion /\ [][NextVersion]_vars

\* ---------------------------------------------------- SpecParse: _parse_data
ParseGroupValues ==
    {Group(JStr(<<"T">>), JList(<<JStr(LabelB)>>)),
     Group(JStr(<<"U">>), JList(<<JStr(LabelF)>>)),
     Group(JStr(<<"W">>), JList(<<JStr(LabelB), JStr(LabelF)>>)),
     Group(JNum(1), JList(<<JStr(LabelB)>>))}
ParseConfigFiles ==
    {NoPath} \cup
    {JsonFile(Config(JStr(<<"V">>), JList(l))) :
        l \in SeqsUpTo(ParseGroupValues, MaxGroups) \ {<<>>}}

ParsePullRequests ==
    {PullRequest(1, <<>>), PullRequest(2, <<LabelB>>), PullRequest(3, <<LabelF>>),
     PullRequest(4, <<LabelB, LabelF>>), PullRequest(5, <<LabelB>>)}

ParseInputs == DistinctSeqsUpTo(ParsePullRequests, MaxPullRequests) \ {<<>>}

\* _parse_data(pull_request_data) as write_changelog calls it: the list is
\* never empty (line 244)
ParseData(prs) ==
    /\ pc = "constructed"
    /\ pc' = "done"
    /\ pull_request_data' = prs
    /\ \E r \in {_parse_data(config, prs)} :
         /\ data_to_write' = r.data
         /\ outcome' = IF r.err = "none" THEN "returned" ELSE "raised"
    /\ UNCHANGED <<file, config_file, config, logged, title, version, response,
                   body, before, runs, prev>>

InitParse == InitWith({NoFile})
NextParse ==
    \/ \E cf \in ParseConfigFiles : Construct(cf)
    \/ \E prs \in ParseInputs : ParseData(prs)
SpecParse == InitParse /\ [][NextParse]_vars

\* ==================================================================== claims
Count(seq, x) == Cardinality({i \in 1..Len(seq) : seq[i] = x})
Range(seq) == {seq[i] : i \in 1..Len(seq)}
AllLines(data) == Concat([i \in 1..Len(data) |-> data[i].items])
Ran == pc = "start" /\ runs > 0
Parsed == pc = "done" /\ outcome = "returned" /\ pull_request_data # <<>>

\* C1: whenever write_changelog writes, the file afterwards is the new section
\* followed, when the prior content P is non-empty, by two newlines and then P
\* character for character (so P is a suffix of the new content).
C1_PrependPreserves ==
    (Ran /\ outcome = "wrote") =>
        file.content =
            SectionText(config.val["header_prefix"].val, version, data_to_write)
                \o (IF before.content # <<>>
                    THEN <<"\n", "\n">> \o before.content ELSE <<>>)

\* C2: a pull request whose labels match group A and group B, A before B in the
\* configuration, is rendered in A and not in B.
C2_FirstGroupWins ==
    (Parsed /\ config.val["group_config"].val # <<>>) =>
        LET group_config == config.val["group_config"].val IN
        \A p \in Range(pull_request_data) :
          \A a, b \in 1..Len(group_config) :
            (/\ a < b
             /\ LabelMatch(p, group_config[a].val["labels"].val)
             /\ LabelMatch(p, group_config[b].val["labels"].val))
            => /\ _get_changelog_line(p) \in Range(data_to_write[a].items)
               /\ _get_changelog_line(p) \notin Range(data_to_write[b].items)

\* C3: a run in which no version is resolved, or in which the search answers
\* with a non-200 status or with zero results, returns normally and leaves the
\* changelog file as it was (an absent file stays absent).
C3_NoWriteLeavesFile ==
    (Ran /\ (\/ version = <<>>
             \/ response.status_code # 200
             \/ response.total_count = 0))
    => (file = before /\ outcome = "returned")

C3_Witness ==
    /\ Ran
    /\ version # <<>>
    /\ response.status_code = 200
    /\ response.total_count = 0
    /\ config.val["group_config"].val # <<>>
    /\ ~before.exists
    /\ ~file.exists

\* C4: the version is the second whitespace-separated word of a title that
\* starts with "release" (case-insensitive) and has such a word, and is empty
\* for every other title.
WhiteSpace == {" ", "\t", "\n", "\r"}
RECURSIVE WordsFrom(_, _, _)
WordsFrom(s, i, cur) ==
    IF i > Len(s) THEN (IF cur = <<>> THEN <<>> ELSE <<cur>>)
    ELSE IF s[i] \in WhiteSpace
         THEN (IF cur = <<>> THEN <<>> ELSE <<cur>>) \o WordsFrom(s, i + 1, <<>>)
         ELSE WordsFrom(s, i + 1, Append(cur, s[i]))
Words(s) == WordsFrom(s, 1, <<>>)

C4_SecondWord ==
    (pc = "done" /\ title.kind = "str") =>
        version = IF StartsWith(Lower(title.val), release) /\ Len(Words(title.val)) >= 2
                  THEN Words(title.val)[2]
                  ELSE <<>>

\* C5: every config file that is absent, unreadable, unparseable or invalid is
\* replaced by the default config, and no run of write_changelog ends in an
\* exception caused by the values of the config in use.
C5_BadConfigNeverFails ==
    /\ (pc = "constructed" /\ logged # "ok") => config = _default_config
    /\ outcome # "raised"

\* C6: validate_config accepts exactly the mappings with a non-empty string
\* header_prefix and a list group_config whose entries are mappings with a
\* non-empty title and a non-empty list of labels.
ClaimedValid(j) ==
    /\ j.kind = "dict"
    /\ Get(j, "header_prefix").kind = "str"
    /\ Get(j, "header_prefix").val # <<>>
    /\ Get(j, "group_config").kind = "list"
    /\ \A i \in 1..Len(Get(j, "group_config").val) :
         LET g == Get(j, "group_config").val[i] IN
         /\ g.kind = "dict"
         /\ Truthy(Get(g, "title"))
         /\ Get(g, "labels").kind = "list"
         /\ Get(g, "labels").val # <<>>

C6_ValidateExact ==
    (pc = "constructed" /\ config_file.kind = "json") =>
        ((logged = "ok") <=> ClaimedValid(config_file.val))

\* C7: the written section is the header line, a line of as many '=' as the
\* header has characters, and for each group with items: a blank line, the
\* title line (when the title is non-empty), a blank line, the rendered lines;
\* a group without items adds nothing.
ClaimedGroupText(data) ==
    IF data.items = <<>> THEN <<>>
    ELSE <<"\n">>
         \o (IF data.title # <<>>
             THEN SubSeq(data.title, 1, Len(data.title) - 1) ELSE <<>>)
         \o <<"\n">> \o Concat(data.items)

ClaimedSection(header_prefix, v, data) ==
    LET header == header_prefix \o <<" ">> \o v IN
    header \o <<"\n">> \o Repeat("=", Len(header)) \o <<"\n">>
        \o Concat([i \in 1..Len(data) |-> ClaimedGroupText(data[i])])

C7_SectionFormat ==
    (Ran /\ outcome = "wrote") =>
        file.content =
            ClaimedSection(config.val["header_prefix"].val, version, data_to_write)
                \o (IF body # <<>> THEN <<"\n", "\n">> \o body ELSE <<>>)

\* C8 (as claimed): a second run with the same version, config and pull
\* requests leaves the file as the first run left it.
SameInputsTwice ==
    /\ Ran
    /\ outcome = "wrote"
    /\ prev.outcome = "wrote"
    /\ prev.config = config
    /\ prev.version = version
    /\ prev.pull_request_data = pull_request_data

C8_Idempotent == SameInputsTwice => file = prev.after

\* C8 (amended): a second run with the same version, config and pull requests
\* prepends the same section again: the file then is the section the first
\* run's file starts with, two newlines, and the first run's file as read back.
C8_PrependsAgain ==
    SameInputsTwice =>
        LET first == prev.after.content
            n == Len(file.content) - Len(ReadText(first)) - 2
        IN /\ n > 0
           /\ n <= Len(first)
           /\ file.content =
                 SubSeq(first, 1, n) \o <<"\n", "\n">> \o ReadText(first)

C8_Witness == SameInputsTwice /\ Len(pull_request_data) = MaxItems

\* C9: every fetched pull request is rendered as exactly one line in exactly
\* one group of the result; none is lost, none is duplicated.
C9_Partition ==
    Parsed =>
        /\ Len(AllLines(data_to_write)) = Len(pull_request_data)
        /\ \A p \in Range(pull_request_data) :
             Count(AllLines(data_to_write), _get_changelog_line(p))
                 = Count(pull_request_data, p)

C9_Witness ==
    /\ Parsed
    /\ Len(pull_request_data) = MaxPullRequests
    /\ Len(data_to_write) = MaxGroups + 1
    /\ \A i \in 1..Len(data_to_write) : data_to_write[i].items # <<>>

\* C10: each configured group holds every pull request that matches it and no
\* earlier group, and "Other Changes" holds exactly the pull requests matching
\* no configured group and is emitted exactly when there are such.
MatchesGroup(p, group_config, g) ==
    LabelMatch(p, group_config[g].val["labels"].val)

C10_GroupsTakeAllMatching ==
    (Parsed /\ config.val["group_config"].val # <<>>) =>
        LET group_config == config.val["group_config"].val
            n == Len(group_config)
            others == {p \in Range(pull_request_data) :
                         \A g \in 1..n : ~MatchesGroup(p, group_config, g)}
        IN /\ \A g \in 1..n :
                Range(data_to_write[g].items) =
                    {_get_changelog_line(p) :
                        p \in {q \in Range(pull_request_data) :
                                 /\ MatchesGroup(q, group_config, g)
                                 /\ \A h \in 1..(g - 1) :
                                        ~MatchesGroup(q, group_config, h)}}
           /\ Len(data_to_write) = (IF others = {} THEN n ELSE n + 1)
           /\ others # {} =>
                Range(data_to_write[n + 1].items) =
                    {_get_changelog_line(p) : p \in others}

====
